---- MODULE Spec2Model ----
(***************************************************************************)
(* State-machine model of transport.py: the TCP socket transport           *)
(* (WiFiTransport) and the Bluetooth LE transport (BLETransport) behind    *)
(* the TransportBase interface.                                            *)
(*                                                                         *)
(* One transport instance is modelled, of the class chosen at the start.   *)
(* Two caller threads use it: "main" connects, disconnects and registers   *)
(* the receive callback, "aux" sends ("main" sends too on the socket       *)
(* transport; in one BLE application "aux" disconnects while "main"        *)
(* connects).  The background threads are the socket receive-loop threads  *)
(* and the BLE run-loop threads.  A step of the model is one stretch of    *)
(* code between two points where another thread can run (for a coroutine:  *)
(* between two awaits).  A call ends in the position "ret", where its      *)
(* result can be observed, before the caller is idle again.                *)
(*                                                                         *)
(* Time is abstracted as follows.  A bounded wait (future.result(timeout), *)
(* Thread.join(timeout)) may expire only when the awaited thing is not     *)
(* bound to finish in time: a task that is not finished, a thread that is  *)
(* inside the user's receive callback or that nobody asked to stop.        *)
(***************************************************************************)
EXTENDS Integers, Sequences, FiniteSets, TLC

\* ---------------------------------------------------------------- bounds
MaxSockets == 2     \* socket objects open at the same time
MaxRcv == 2         \* receive-loop threads alive at the same time
MaxLoops == 2       \* BLE connect calls of the reconnecting application
MaxRaced == 1       \* BLE connect calls of the two-thread applications
MaxSends == 1       \* BLE send tasks that exist at the same time
MaxDiscs == 1       \* BLE graceful-disconnect tasks that exist at the same time

\* The threads of the application that call the instance: "main" connects,
\* disconnects and registers the callback, "aux" sends.
Callers == {"main", "aux"}

\* The applications: "threaded" runs both threads around one BLE connection
\* (any number of WiFi connections); "reconnecting" is one thread that
\* connects and disconnects a BLE instance again and again; "interrupting"
\* has "main" connect a BLE instance once while "aux" disconnects it.
Apps(k) ==
  IF k = "ble" THEN {"threaded", "reconnecting", "interrupting"} ELSE {"threaded"}
Hosts == {"h1", "h2"}
RcvThreads == 1..MaxRcv
Loops == 1..MaxLoops
SendIds == 1..MaxSends
DiscIds == 1..MaxDiscs

VARIABLES
  kind,                 \* "wifi" | "ble": the class TransportFactory built
  app,                  \* the application that uses the instance
  is_connected,         \* TransportBase.is_connected
  receive_callback,     \* TRUE: a callback is registered, FALSE: None
  pc,                   \* position of each caller thread
  call,                 \* the call each caller is running
  \* ---- WiFiTransport
  host,                 \* self.host (and self.port): "none" or a host
  socket,               \* self.socket: "none" (None), or the state of the
                        \* socket object: "open" | "conn" | "eof"
  rx,                   \* self.socket has unread bytes from the peer
  leaked,               \* open socket objects self.socket no longer names
  socket_lock,          \* "free" or the caller holding self.socket_lock
  rcv_thread,           \* self.rcv_thread: 0 (None) or a thread
  rcvPc,                \* position of each receive-loop thread
  rcv_buffer,           \* length of self.rcv_buffer
  stop_receiving_flag,  \* self.stop_receiving_flag
  \* ---- BLETransport
  bleak,                \* the bleak library can be imported
  device_address,       \* self.device_address: "none" or an address
  device_name,          \* self.device_name: "none" or a name
  client,               \* self.client: 0 (None) or the BleakClient made by
                        \* the connect task of that number
  event_loop,           \* self.event_loop: 0 (None) or a run loop
  ble_thread,           \* self.ble_thread: 0 (None) or a thread
  nLoops,               \* run-loop threads started so far
  loopSt,               \* state of each run-loop thread and its loop
  cancelReq,            \* cancel_tasks is queued on the loop (call_soon)
  stopReq,              \* loop.stop was queued on the loop (call_soon)
  pending_tasks,        \* self._pending_tasks
  disconnecting,        \* self._disconnecting
  conn,                 \* the _async_connect task of each connect call
  sends,                \* the _async_send tasks
  discs,                \* the _async_disconnect tasks
  link,                 \* BleakClient.is_connected of each client
  notify,               \* notifications are armed on each client
  \* ---- history (observations the properties are stated on)
  life,                 \* outcome of the last finished connect/disconnect
  endpoint,             \* the endpoint the last successful connect reached
  stopRet,              \* stop_receiving returned, no start_receiving since
  lateCallback          \* the callback was invoked while stopRet

commonVars == <<kind, app, is_connected, receive_callback, pc, call>>
wifiVars == <<host, socket, rx, leaked, socket_lock, rcv_thread, rcvPc,
              rcv_buffer, stop_receiving_flag>>
bleVars == <<bleak, device_address, device_name, client, event_loop, ble_thread,
             nLoops, loopSt, cancelReq, stopReq, pending_tasks, disconnecting,
             conn, sends, discs, link, notify>>
histVars == <<life, endpoint, stopRet, lateCallback>>
vars == <<commonVars, wifiVars, bleVars, histVars>>

\* ------------------------------------------------------------- helpers
NoCall == [op |-> "none", val |-> "none", io |-> FALSE, g |-> FALSE,
           d |-> FALSE, task |-> 0]

Bool2Val(b) == IF b THEN "true" ELSE "false"

\* No connect or disconnect call is running.
LifecycleIdle ==
  \A c \in Callers : call[c].op \in {"connect", "disconnect"} => pc[c] = "ret"

\* The conceptual state Disconnected: never connected, connect failed, or
\* disconnect returned, and no lifecycle call is running.
Disconnected == LifecycleIdle /\ life \in {"never", "connect_failed", "disconnected"}

\* A call that starts: op, with the guard and the lifecycle state it sees.
Begin(o, g) == [op |-> o, val |-> "pending", io |-> FALSE,
                g |-> (o = "send" /\ g),
                d |-> (o = "send" /\ Disconnected), task |-> 0]

Least(S) == CHOOSE x \in S : \A y \in S : x <= y

FreeRcv == {r \in RcvThreads : rcvPc[r] = "dead"}

\* threading.Thread.is_alive() of self.rcv_thread
RcvAlive(r) == r # 0 /\ rcvPc[r] # "dead"

\* Socket objects that are open.
OpenSockets == leaked + (IF socket = "none" THEN 0 ELSE 1)

\* A connect task that does not exist (yet).
NoConn == [loop |-> 0, st |-> "none", addr |-> "none", mode |-> "timed",
           found |-> FALSE, abandoned |-> FALSE]

\* A send or disconnect task slot that is not in use.
NoTask == [loop |-> 0, st |-> "none", g |-> FALSE, abandoned |-> FALSE]

\* The caller is back from its call.
Return(c) ==
  /\ pc[c] = "ret"
  /\ pc' = [pc EXCEPT ![c] = "idle"]
  /\ call' = [call EXCEPT ![c] = NoCall]
  /\ UNCHANGED <<bleVars, kind, app, is_connected, receive_callback, wifiVars, histVars>>

\* ------------------------------------------------------------------ Init
Init ==
  /\ kind \in {"wifi", "ble"}
  /\ app \in Apps(kind)
  /\ bleak \in (IF kind = "ble" THEN BOOLEAN ELSE {TRUE})
  /\ device_address = "none"
  /\ device_name = "none"
  /\ client = 0
  /\ event_loop = 0
  /\ ble_thread = 0
  /\ nLoops = 0
  /\ loopSt = [l \in Loops |-> "unborn"]
  /\ cancelReq = [l \in Loops |-> FALSE]
  /\ stopReq = [l \in Loops |-> FALSE]
  /\ pending_tasks = {}
  /\ disconnecting = FALSE
  /\ conn = [k \in Loops |-> NoConn]
  /\ sends = [s \in SendIds |-> NoTask]
  /\ discs = [d \in DiscIds |-> NoTask]
  /\ link = [k \in Loops |-> 0]
  /\ notify = [k \in Loops |-> FALSE]
  /\ is_connected = FALSE
  /\ receive_callback = FALSE
  /\ pc = [c \in Callers |-> "idle"]
  /\ call = [c \in Callers |-> NoCall]
  /\ host = "none"
  /\ socket = "none"
  /\ rx = FALSE
  /\ leaked = 0
  /\ socket_lock = "free"
  /\ rcv_thread = 0
  /\ rcvPc = [r \in RcvThreads |-> "dead"]
  /\ rcv_buffer = 0
  /\ stop_receiving_flag = FALSE
  /\ life = "never"
  /\ endpoint = "none"
  /\ stopRet = FALSE
  /\ lateCallback = FALSE

\* ======================================================= WiFiTransport

\* connect, lines 86-91: store host and port, create the socket object; the
\* object self.socket named before is no longer referenced.
WiFi_connect(h) ==
  /\ kind = "wifi" /\ pc["main"] = "idle"
  /\ OpenSockets < MaxSockets
  /\ host' = h
  /\ leaked' = OpenSockets
  /\ socket' = "open"
  /\ rx' = FALSE
  /\ pc' = [pc EXCEPT !["main"] = "w_connect"]
  /\ call' = [call EXCEPT !["main"] = Begin("connect", FALSE)]
  /\ UNCHANGED <<bleVars, kind, app, is_connected, receive_callback, socket_lock, rcv_thread,
                 rcvPc, rcv_buffer, stop_receiving_flag, histVars>>

\* connect, lines 92-102: the blocking connect succeeds, or raises and the
\* handler drops the socket object without closing it.
WiFi_connect_result(ok) ==
  /\ kind = "wifi" /\ pc["main"] = "w_connect"
  /\ ok => socket # "none"
  /\ IF ok
       THEN /\ socket' = "conn"
            /\ is_connected' = TRUE
            /\ leaked' = leaked
            /\ endpoint' = host
       ELSE /\ socket' = "none"
            /\ is_connected' = FALSE
            /\ leaked' = OpenSockets
            /\ endpoint' = endpoint
  /\ rx' = FALSE
  /\ pc' = [pc EXCEPT !["main"] = "ret"]
  /\ call' = [call EXCEPT !["main"].val = Bool2Val(ok)]
  /\ life' = IF ok THEN "connected" ELSE "connect_failed"
  /\ UNCHANGED <<bleVars, kind, app, receive_callback, host, socket_lock, rcv_thread, rcvPc,
                 rcv_buffer, stop_receiving_flag, stopRet, lateCallback>>

\* stop_receiving, line 145 (called first by disconnect, line 107).
WiFi_stop_receiving(o) ==
  /\ kind = "wifi" /\ pc["main"] = "idle"
  /\ stop_receiving_flag' = TRUE
  /\ pc' = [pc EXCEPT !["main"] = "w_join"]
  /\ call' = [call EXCEPT !["main"] = Begin(o, FALSE)]
  /\ UNCHANGED <<bleVars, kind, app, is_connected, receive_callback, host, socket, rx, leaked,
                 socket_lock, rcv_thread, rcvPc, rcv_buffer, histVars>>

\* Thread.join(timeout=2.0) on a receive thread returns without the thread
\* having ended: the thread is inside the receive callback for over 2 s.
JoinTimesOutRcv(r) == rcvPc[r] = "cb"

\* stop_receiving, lines 146-148: join the thread and forget it.
WiFi_stop_join ==
  /\ kind = "wifi" /\ pc["main"] = "w_join"
  /\ rcv_thread # 0 => (rcvPc[rcv_thread] = "dead" \/ JoinTimesOutRcv(rcv_thread))
  /\ rcv_thread' = 0
  /\ pc' = [pc EXCEPT !["main"] =
              IF call["main"].op = "stop_receiving" THEN "ret" ELSE "w_close"]
  /\ call' = [call EXCEPT !["main"].val =
                IF call["main"].op = "stop_receiving" THEN "none" ELSE "pending"]
  /\ stopRet' = TRUE
  /\ UNCHANGED <<bleVars, kind, app, is_connected, receive_callback, host, socket, rx, leaked,
                 socket_lock, rcvPc, rcv_buffer, stop_receiving_flag, life,
                 endpoint, lateCallback>>

\* disconnect, lines 109-118: close the socket, clear the state.
WiFi_disconnect ==
  /\ kind = "wifi" /\ pc["main"] = "w_close"
  /\ socket' = "none"
  /\ rx' = FALSE
  /\ is_connected' = FALSE
  /\ rcv_buffer' = 0
  /\ pc' = [pc EXCEPT !["main"] = "ret"]
  /\ call' = [call EXCEPT !["main"].val = "none"]
  /\ life' = "disconnected"
  /\ UNCHANGED <<bleVars, kind, app, receive_callback, host, leaked, socket_lock, rcv_thread,
                 rcvPc, stop_receiving_flag, endpoint, stopRet, lateCallback>>

\* send, lines 122-123: the connection check.
WiFi_send(c) ==
  /\ kind = "wifi" /\ pc[c] = "idle"
  /\ IF socket = "none" \/ ~is_connected
       THEN /\ pc' = [pc EXCEPT ![c] = "ret"]
            /\ call' = [call EXCEPT ![c] = [Begin("send", FALSE) EXCEPT !.val = "false"]]
       ELSE /\ pc' = [pc EXCEPT ![c] = "w_lock"]
            /\ call' = [call EXCEPT ![c] = Begin("send", FALSE)]
  /\ UNCHANGED <<bleVars, kind, app, is_connected, receive_callback, wifiVars, histVars>>

\* send, line 126: take self.socket_lock.
WiFi_send_lock(c) ==
  /\ kind = "wifi" /\ pc[c] = "w_lock"
  /\ socket_lock = "free"
  /\ socket_lock' = c
  /\ pc' = [pc EXCEPT ![c] = "w_write"]
  /\ UNCHANGED <<bleVars, kind, app, is_connected, receive_callback, call, host, socket, rx,
                 leaked, rcv_thread, rcvPc, rcv_buffer, stop_receiving_flag,
                 histVars>>

\* send, lines 127-131: sendall under the lock; an exception gives False.
WiFi_send_write(c, ok) ==
  /\ kind = "wifi" /\ pc[c] = "w_write"
  /\ ok => socket = "conn"
  /\ socket_lock' = "free"
  /\ pc' = [pc EXCEPT ![c] = "ret"]
  /\ call' = [call EXCEPT ![c].val = Bool2Val(ok), ![c].io = (socket # "none")]
  /\ UNCHANGED <<bleVars, kind, app, is_connected, receive_callback, host, socket, rx, leaked,
                 rcv_thread, rcvPc, rcv_buffer, stop_receiving_flag, histVars>>

\* start_receiving, lines 135-141.
WiFi_start_receiving ==
  /\ kind = "wifi" /\ pc["main"] = "idle"
  /\ IF RcvAlive(rcv_thread)
       THEN UNCHANGED <<receive_callback, stop_receiving_flag, rcv_thread, rcvPc,
                        stopRet>>
       ELSE /\ FreeRcv # {}
            /\ receive_callback' = TRUE
            /\ stop_receiving_flag' = FALSE
            /\ rcv_thread' = Least(FreeRcv)
            /\ rcvPc' = [rcvPc EXCEPT ![Least(FreeRcv)] = "check"]
            /\ stopRet' = FALSE
  /\ pc' = [pc EXCEPT !["main"] = "ret"]
  /\ call' = [call EXCEPT !["main"] =
                [Begin("start_receiving", FALSE) EXCEPT !.val = "none"]]
  /\ UNCHANGED <<bleVars, kind, app, is_connected, host, socket, rx, leaked, socket_lock,
                 rcv_buffer, life, endpoint, lateCallback>>

\* _receive_loop, line 152: the loop condition; the thread ends when it fails.
WiFi_receive_loop(r) ==
  /\ kind = "wifi" /\ rcvPc[r] = "check"
  /\ rcvPc' = [rcvPc EXCEPT ![r] =
                 IF ~stop_receiving_flag /\ socket # "none" THEN "poll" ELSE "dead"]
  /\ UNCHANGED <<bleVars, commonVars, host, socket, rx, leaked, socket_lock, rcv_thread,
                 rcv_buffer, stop_receiving_flag, histVars>>

\* poll() reports the socket readable: unread bytes, or end of stream.
Readable == (socket = "conn" /\ rx) \/ socket = "eof"

\* _poll_and_receive, lines 158-164 and 173-176, then the sleep of line 154:
\* poll the socket for 100 ms; no socket, a timeout or an error gives False.
WiFi_poll_and_receive(r) ==
  /\ kind = "wifi" /\ rcvPc[r] = "poll"
  /\ rcvPc' = [rcvPc EXCEPT ![r] = IF Readable THEN "recv" ELSE "check"]
  /\ UNCHANGED <<bleVars, commonVars, host, socket, rx, leaked, socket_lock, rcv_thread,
                 rcv_buffer, stop_receiving_flag, histVars>>

\* _poll_and_receive, lines 166-171: recv on self.socket; the callback is
\* invoked when bytes were read and a callback is registered.
WiFi_recv(r) ==
  /\ kind = "wifi" /\ rcvPc[r] = "recv"
  /\ LET data == socket = "conn" /\ rx IN
       /\ rx' = IF data THEN FALSE ELSE rx
       /\ rcvPc' = [rcvPc EXCEPT ![r] =
                      IF data /\ receive_callback THEN "cb" ELSE "check"]
       /\ lateCallback' = (lateCallback \/ (data /\ receive_callback /\ stopRet))
  /\ UNCHANGED <<bleVars, commonVars, host, socket, leaked, socket_lock, rcv_thread,
                 rcv_buffer, stop_receiving_flag, life, endpoint, stopRet>>

\* The receive callback returns to _poll_and_receive (line 171).
WiFi_callback_returns(r) ==
  /\ kind = "wifi" /\ rcvPc[r] = "cb"
  /\ rcvPc' = [rcvPc EXCEPT ![r] = "check"]
  /\ UNCHANGED <<bleVars, commonVars, host, socket, rx, leaked, socket_lock, rcv_thread,
                 rcv_buffer, stop_receiving_flag, histVars>>

\* The peer sends bytes on the connection.
PeerSends ==
  /\ kind = "wifi" /\ socket = "conn" /\ ~rx
  /\ rx' = TRUE
  /\ UNCHANGED <<bleVars, commonVars, host, socket, leaked, socket_lock, rcv_thread, rcvPc,
                 rcv_buffer, stop_receiving_flag, histVars>>

\* The peer closes the connection: reads give end of stream, writes fail.
PeerCloses ==
  /\ kind = "wifi" /\ socket = "conn"
  /\ socket' = "eof"
  /\ rx' = FALSE
  /\ UNCHANGED <<bleVars, commonVars, host, leaked, socket_lock, rcv_thread, rcvPc,
                 rcv_buffer, stop_receiving_flag, histVars>>

\* A socket object nothing refers to any more is collected, which closes it.
SocketCollected ==
  /\ kind = "wifi" /\ leaked > 0
  /\ leaked' = leaked - 1
  /\ UNCHANGED <<bleVars, commonVars, host, socket, rx, socket_lock, rcv_thread, rcvPc,
                 rcv_buffer, stop_receiving_flag, histVars>>

\* connection_info, lines 181-183.
WiFi_connection_info ==
  IF is_connected /\ host # "none" THEN <<"WiFi", host>> ELSE <<"WiFi", "(disconnected)">>

WiFiNext ==
  \/ \E h \in Hosts : WiFi_connect(h)
  \/ \E ok \in BOOLEAN : WiFi_connect_result(ok)
  \/ \E o \in {"stop_receiving", "disconnect"} : WiFi_stop_receiving(o)
  \/ WiFi_stop_join
  \/ WiFi_disconnect
  \/ \E c \in Callers : WiFi_send(c)
  \/ \E c \in Callers : WiFi_send_lock(c)
  \/ \E c \in Callers, ok \in BOOLEAN : WiFi_send_write(c, ok)
  \/ WiFi_start_receiving
  \/ \E r \in RcvThreads : WiFi_receive_loop(r)
  \/ \E r \in RcvThreads : WiFi_poll_and_receive(r)
  \/ \E r \in RcvThreads : WiFi_recv(r)
  \/ \E r \in RcvThreads : WiFi_callback_returns(r)
  \/ PeerSends
  \/ PeerCloses
  \/ SocketCollected

\* ======================================================== BLETransport

\* The camera: its address and its advertised name.
CameraAddress == "a1"
CameraName == "n1"

Addrs == {"none", CameraAddress}   \* connect's device_address: None, or given
Modes == {"timed", "indef"}        \* connect's scan_timeout: a number, or None

\* The loop is running and free to run the next callback or task step.
LoopRuns(l) == l # 0 /\ loopSt[l] = "running" /\ ~stopReq[l] /\ ~cancelReq[l]

\* A task is finished: its future has a result (an exception counts as the
\* result False, which is what every caller makes of it).
Results == {"true", "false", "notfound"}
Done(t) == t.st \in Results

\* The loop a task sits on has stopped: the task will never run.
Stranded(t) == t.loop # 0 /\ loopSt[t.loop] = "dead"

\* A task that ends with a result: the result is kept for the caller waiting
\* on the future; with no caller waiting, nothing of the task remains.
Settle(t, none, res) == IF t.abandoned THEN none ELSE [t EXCEPT !.st = res]

\* The caller stops waiting on a task: a finished or stranded task is gone,
\* any other stays on its loop with nobody waiting.
Leave(t, none) == IF Done(t) \/ Stranded(t) THEN none ELSE [t EXCEPT !.abandoned = TRUE]

\* Task slots not in use.
FreeSends == {s \in SendIds : sends[s].st = "none"}
FreeDiscs == {d \in DiscIds : discs[d].st = "none"}

\* connect, lines 208-214: import bleak (ImportError gives False), start the
\* run-loop thread.
BLE_connect(a, m) ==
  /\ kind = "ble" /\ pc["main"] = "idle"
  /\ nLoops < (IF app = "reconnecting" THEN MaxLoops ELSE MaxRaced)
  /\ IF bleak
       THEN /\ nLoops' = nLoops + 1
            /\ ble_thread' = nLoops + 1
            /\ loopSt' = [loopSt EXCEPT ![nLoops + 1] = "started"]
            /\ conn' = [conn EXCEPT ![nLoops + 1] =
                          [NoConn EXCEPT !.addr = a, !.mode = m, !.st = "new"]]
            /\ pc' = [pc EXCEPT !["main"] = "b_sleep"]
            /\ call' = [call EXCEPT !["main"] =
                          [Begin("connect", FALSE) EXCEPT !.task = nLoops + 1]]
            /\ life' = life
       ELSE /\ UNCHANGED <<nLoops, ble_thread, loopSt, conn>>
            /\ pc' = [pc EXCEPT !["main"] = "ret"]
            /\ call' = [call EXCEPT !["main"] =
                          [Begin("connect", FALSE) EXCEPT !.val = "false"]]
            /\ life' = "connect_failed"
  /\ UNCHANGED <<wifiVars, kind, app, is_connected, receive_callback, bleak,
                 device_address, device_name, client, event_loop, cancelReq,
                 stopReq, pending_tasks, disconnecting, sends, discs, link,
                 notify, endpoint, stopRet, lateCallback>>

\* _run_event_loop, lines 303-305: the new thread creates its loop, stores it
\* in self.event_loop and runs it.
BLE_run_event_loop(l) ==
  /\ kind = "ble" /\ loopSt[l] = "started"
  /\ loopSt' = [loopSt EXCEPT ![l] = "running"]
  /\ event_loop' = l
  /\ UNCHANGED <<wifiVars, commonVars, histVars, bleak, device_address,
                 device_name, client, ble_thread, nLoops, cancelReq, stopReq,
                 pending_tasks, disconnecting, conn, sends, discs, link, notify>>

\* connect, lines 217-223: after the 0.1 s sleep, schedule _async_connect on
\* whatever self.event_loop is now; None makes run_coroutine_threadsafe raise.
BLE_connect_submit ==
  /\ kind = "ble" /\ pc["main"] = "b_sleep"
  /\ LET k == call["main"].task IN
       IF event_loop = 0
         THEN /\ pc' = [pc EXCEPT !["main"] = "ret"]
              /\ call' = [call EXCEPT !["main"].val = "false"]
              /\ life' = "connect_failed"
              /\ conn' = [conn EXCEPT ![k] = NoConn]
         ELSE /\ pc' = [pc EXCEPT !["main"] =
                         IF conn[k].mode = "timed" THEN "b_wait" ELSE "b_wait_forever"]
              /\ call' = [call EXCEPT !["main"].io = TRUE]
              /\ life' = life
              /\ conn' = [conn EXCEPT ![k].loop = event_loop, ![k].st = "queued"]
  /\ UNCHANGED <<wifiVars, kind, app, is_connected, receive_callback, bleak,
                 device_address, device_name, client, event_loop, ble_thread,
                 nLoops, loopSt, cancelReq, stopReq, pending_tasks, disconnecting,
                 sends, discs, link, notify, endpoint, stopRet, lateCallback>>

\* The task is cancelled when the wait runs out.
AbandonConnect_cancel(t) == NoConn

\* What connect does with the task when its wait of scan_timeout + 20 s runs
\* out (lines 231-239): nothing, the caller just stops waiting.
AbandonConnect(t) == Leave(t, NoConn)

\* connect, lines 225-239: wait for the task; its result is returned, an
\* exception or (with a finite scan_timeout) the end of the wait gives False.
BLE_connect_wait(timeout) ==
  /\ kind = "ble" /\ pc["main"] \in {"b_wait", "b_wait_forever"}
  /\ LET k == call["main"].task
         ok == ~timeout /\ conn[k].st = "true"
     IN
       /\ IF timeout
            THEN /\ ~Done(conn[k]) /\ pc["main"] = "b_wait"
                 /\ conn' = [conn EXCEPT ![k] = AbandonConnect(conn[k])]
            ELSE /\ Done(conn[k])
                 /\ conn' = [conn EXCEPT ![k] = NoConn]
       /\ call' = [call EXCEPT !["main"].val = Bool2Val(ok),
                               !["main"].g = (conn[k].st = "notfound")]
       /\ life' = IF ok THEN "connected" ELSE "connect_failed"
  /\ pc' = [pc EXCEPT !["main"] = "ret"]
  /\ UNCHANGED <<wifiVars, kind, app, is_connected, receive_callback, bleak,
                 device_address, device_name, client, event_loop, ble_thread,
                 nLoops, loopSt, cancelReq, stopReq, pending_tasks, disconnecting,
                 sends, discs, link, notify, endpoint, stopRet, lateCallback>>

\* The thread that calls disconnect.
Disconnector == IF app = "interrupting" THEN "aux" ELSE "main"

\* disconnect, line 243: set the guard.
BLE_disconnect(c) ==
  /\ kind = "ble" /\ c = Disconnector /\ pc[c] = "idle"
  /\ disconnecting' = TRUE
  /\ pc' = [pc EXCEPT ![c] = "d_flag"]
  /\ call' = [call EXCEPT ![c] = Begin("disconnect", FALSE)]
  /\ UNCHANGED <<wifiVars, histVars, kind, app, is_connected, receive_callback, bleak,
                 device_address, device_name, client, event_loop, ble_thread,
                 nLoops, loopSt, cancelReq, stopReq, pending_tasks, conn, sends,
                 discs, link, notify>>

\* disconnect, lines 244-250: clear is_connected; with a loop and a client,
\* schedule _async_disconnect on the loop.
BLE_disconnect_graceful(c) ==
  /\ kind = "ble" /\ pc[c] = "d_flag"
  /\ is_connected' = FALSE
  /\ IF event_loop # 0 /\ client # 0
       THEN /\ FreeDiscs # {}
            /\ discs' = [discs EXCEPT ![Least(FreeDiscs)] =
                           [NoTask EXCEPT !.loop = event_loop, !.st = "queued"]]
            /\ call' = [call EXCEPT ![c].task = Least(FreeDiscs), ![c].io = TRUE]
            /\ pc' = [pc EXCEPT ![c] = "d_wait"]
       ELSE /\ UNCHANGED <<discs, call>>
            /\ pc' = [pc EXCEPT ![c] = "d_cancel"]
  /\ UNCHANGED <<wifiVars, histVars, kind, app, receive_callback, bleak,
                 device_address, device_name, client, event_loop, ble_thread,
                 nLoops, loopSt, cancelReq, stopReq, pending_tasks, disconnecting,
                 conn, sends, link, notify>>

\* disconnect, lines 251-254: wait up to 5 s for the task; go on either way.
BLE_disconnect_wait(c) ==
  /\ kind = "ble" /\ pc[c] = "d_wait"
  /\ discs' = [discs EXCEPT ![call[c].task] = Leave(@, NoTask)]
  /\ call' = [call EXCEPT ![c].g = ~Done(discs[call[c].task])]
  /\ pc' = [pc EXCEPT ![c] = "d_cancel"]
  /\ UNCHANGED <<wifiVars, histVars, kind, app, is_connected, receive_callback, bleak,
                 device_address, device_name, client, event_loop, ble_thread,
                 nLoops, loopSt, cancelReq, stopReq, pending_tasks, disconnecting,
                 conn, sends, link, notify>>

\* disconnect, lines 257-266: with a loop, queue cancel_tasks on it.
BLE_disconnect_cancel(c) ==
  /\ kind = "ble" /\ pc[c] = "d_cancel"
  /\ IF event_loop # 0
       THEN /\ cancelReq' = [cancelReq EXCEPT ![event_loop] = TRUE]
            /\ pc' = [pc EXCEPT ![c] = "d_stop"]
       ELSE /\ cancelReq' = cancelReq
            /\ pc' = [pc EXCEPT ![c] = "d_join"]
  /\ UNCHANGED <<wifiVars, histVars, kind, app, is_connected, receive_callback, call,
                 bleak, device_address, device_name, client, event_loop,
                 ble_thread, nLoops, loopSt, stopReq, pending_tasks,
                 disconnecting, conn, sends, discs, link, notify>>

\* disconnect, line 269: queue loop.stop on the loop.
BLE_disconnect_stop(c) ==
  /\ kind = "ble" /\ pc[c] = "d_stop"
  /\ stopReq' = [stopReq EXCEPT ![event_loop] = TRUE]
  /\ pc' = [pc EXCEPT ![c] = "d_join"]
  /\ UNCHANGED <<wifiVars, histVars, kind, app, is_connected, receive_callback, call,
                 bleak, device_address, device_name, client, event_loop,
                 ble_thread, nLoops, loopSt, cancelReq, pending_tasks,
                 disconnecting, conn, sends, discs, link, notify>>

\* Thread.join(timeout=2.0) on a run-loop thread returns without the thread
\* having ended: the loop was not asked to stop, or the thread is inside the
\* receive callback for over 2 s.
JoinTimesOutLoop(l) ==
  loopSt[l] # "dead" /\ (~stopReq[l] \/ loopSt[l] = "nh_cb")

\* disconnect, lines 271-273: join the thread and forget it.
BLE_disconnect_join(c) ==
  /\ kind = "ble" /\ pc[c] = "d_join"
  /\ ble_thread # 0 => (loopSt[ble_thread] = "dead" \/ JoinTimesOutLoop(ble_thread))
  /\ ble_thread' = 0
  /\ pc' = [pc EXCEPT ![c] = "d_clear"]
  /\ UNCHANGED <<wifiVars, histVars, kind, app, is_connected, receive_callback, call,
                 bleak, device_address, device_name, client, event_loop, nLoops,
                 loopSt, cancelReq, stopReq, pending_tasks, disconnecting, conn,
                 sends, discs, link, notify>>

\* disconnect, line 275: clear the guard and return.
BLE_disconnect_clear(c) ==
  /\ kind = "ble" /\ pc[c] = "d_clear"
  /\ disconnecting' = FALSE
  /\ pc' = [pc EXCEPT ![c] = "ret"]
  /\ call' = [call EXCEPT ![c].val = "none"]
  /\ life' = "disconnected"
  /\ UNCHANGED <<wifiVars, kind, app, is_connected, receive_callback, bleak,
                 device_address, device_name, client, event_loop, ble_thread,
                 nLoops, loopSt, cancelReq, stopReq, pending_tasks, conn, sends,
                 discs, link, notify, endpoint, stopRet, lateCallback>>

\* send, line 279, first three operands: client, is_connected, event_loop.
BLE_send(c) ==
  /\ kind = "ble" /\ app = "threaded" /\ pc[c] = "idle"
  /\ IF client = 0 \/ ~is_connected \/ event_loop = 0
       THEN /\ pc' = [pc EXCEPT ![c] = "ret"]
            /\ call' = [call EXCEPT ![c] =
                          [Begin("send", disconnecting) EXCEPT !.val = "false"]]
       ELSE /\ pc' = [pc EXCEPT ![c] = "s_guard"]
            /\ call' = [call EXCEPT ![c] = Begin("send", disconnecting)]
  /\ UNCHANGED <<wifiVars, histVars, kind, app, is_connected, receive_callback, bleVars>>

\* The guard operand of send's check, line 279.
SendGuard == disconnecting

\* send, lines 279-286: the guard is read last; when it is clear,
\* _async_send is scheduled on self.event_loop.
BLE_send_submit(c) ==
  /\ kind = "ble" /\ pc[c] = "s_guard"
  /\ IF SendGuard
       THEN /\ pc' = [pc EXCEPT ![c] = "ret"]
            /\ call' = [call EXCEPT ![c].val = "false"]
            /\ sends' = sends
       ELSE /\ FreeSends # {}
            /\ sends' = [sends EXCEPT ![Least(FreeSends)] =
                           [NoTask EXCEPT !.loop = event_loop, !.st = "queued",
                                          !.g = call[c].g]]
            /\ call' = [call EXCEPT ![c].task = Least(FreeSends), ![c].io = TRUE]
            /\ pc' = [pc EXCEPT ![c] = "s_wait"]
  /\ UNCHANGED <<wifiVars, histVars, kind, app, is_connected, receive_callback, bleak,
                 device_address, device_name, client, event_loop, ble_thread,
                 nLoops, loopSt, cancelReq, stopReq, pending_tasks, disconnecting,
                 conn, discs, link, notify>>

\* send, lines 287-291: the task's result, or False when the 2 s run out.
BLE_send_wait(c) ==
  /\ kind = "ble" /\ pc[c] = "s_wait"
  /\ pc' = [pc EXCEPT ![c] = "ret"]
  /\ call' = [call EXCEPT ![c].val = Bool2Val(sends[call[c].task].st = "true")]
  /\ sends' = [sends EXCEPT ![call[c].task] = Leave(@, NoTask)]
  /\ UNCHANGED <<wifiVars, histVars, kind, app, is_connected, receive_callback, bleak,
                 device_address, device_name, client, event_loop, ble_thread,
                 nLoops, loopSt, cancelReq, stopReq, pending_tasks, disconnecting,
                 conn, discs, link, notify>>

\* start_receiving, line 295.
BLE_start_receiving ==
  /\ kind = "ble" /\ app = "threaded" /\ pc["main"] = "idle"
  /\ receive_callback' = TRUE
  /\ UNCHANGED <<wifiVars, histVars, kind, app, is_connected, pc, call, bleVars>>

\* stop_receiving, line 299.
BLE_stop_receiving ==
  /\ kind = "ble" /\ app = "threaded" /\ pc["main"] = "idle"
  /\ receive_callback' = FALSE
  /\ UNCHANGED <<wifiVars, histVars, kind, app, is_connected, pc, call, bleVars>>

\* The scan of a connect task ended with the camera (lines 322-335): name and
\* address are stored, the client object is created, client.connect begins.
Linking(t) ==
  [t EXCEPT !.st = "linking", !.found = FALSE]

\* _async_connect, lines 312-339: with an address, store it, create the
\* client and begin client.connect; without, begin the scan.
BLE_async_connect(k) ==
  /\ kind = "ble" /\ conn[k].st = "queued" /\ LoopRuns(conn[k].loop)
  /\ IF conn[k].addr = "none"
       THEN /\ conn' = [conn EXCEPT ![k].mode = "timed", ![k].st =
                          IF conn[k].mode = "timed" THEN "scan_timed" ELSE "scan_start"]
            /\ UNCHANGED <<device_address, client>>
       ELSE /\ conn' = [conn EXCEPT ![k] =
                          Linking([conn[k] EXCEPT !.addr = "none", !.mode = "timed"])]
            /\ device_address' = conn[k].addr
            /\ client' = k
  /\ UNCHANGED <<wifiVars, commonVars, histVars, bleak, device_name, event_loop,
                 ble_thread, nLoops, loopSt, cancelReq, stopReq, pending_tasks,
                 disconnecting, sends, discs, link, notify>>

\* _find_camera with a timeout, lines 388-397, and its use at lines 318-335:
\* one discovery; the camera found, or None and _async_connect returns False.
BLE_find_camera_timed(k, found) ==
  /\ kind = "ble" /\ conn[k].st = "scan_timed" /\ LoopRuns(conn[k].loop)
  /\ IF found
       THEN /\ conn' = [conn EXCEPT ![k] = Linking(conn[k])]
            /\ device_name' = CameraName
            /\ device_address' = CameraAddress
            /\ client' = k
       ELSE /\ conn' = [conn EXCEPT ![k] = Settle(conn[k], NoConn, "notfound")]
            /\ UNCHANGED <<device_name, device_address, client>>
  /\ UNCHANGED <<wifiVars, commonVars, histVars, bleak, event_loop, ble_thread,
                 nLoops, loopSt, cancelReq, stopReq, pending_tasks, disconnecting,
                 sends, discs, link, notify>>

\* _find_camera without a timeout, lines 419-425 and 437: the loop goes on
\* while no device is found, a new window begins and the scanner starts
\* (scanner.start raising ends _async_connect with an exception); the loop
\* left, None is returned and _async_connect returns False.
BLE_scanner_start(k, ok) ==
  /\ kind = "ble" /\ conn[k].st = "scan_start" /\ LoopRuns(conn[k].loop)
  /\ conn' = [conn EXCEPT ![k] =
                IF conn[k].found THEN Settle(conn[k], NoConn, "notfound")
                ELSE IF ok THEN [@ EXCEPT !.st = "scan_wait"]
                ELSE Settle(conn[k], NoConn, "false")]
  /\ UNCHANGED <<wifiVars, commonVars, histVars, bleak, device_address,
                 device_name, client, event_loop, ble_thread, nLoops, loopSt,
                 cancelReq, stopReq, pending_tasks, disconnecting, sends, discs,
                 link, notify>>

\* detection_callback, lines 403-413, called while the scanner of the window
\* is started: the first matching advertisement sets found_device (and asks
\* the scanner to stop, which ends the advertisements of this window).
BLE_detection_callback(k) ==
  /\ kind = "ble" /\ conn[k].st \in {"scan_wait", "scan_stop"} /\ LoopRuns(conn[k].loop)
  /\ ~conn[k].found
  /\ conn' = [conn EXCEPT ![k].found = TRUE]
  /\ UNCHANGED <<wifiVars, commonVars, histVars, bleak, device_address,
                 device_name, client, event_loop, ble_thread, nLoops, loopSt,
                 cancelReq, stopReq, pending_tasks, disconnecting, sends, discs,
                 link, notify>>

\* The inner loop, lines 429-430, ends: a device was found, or the 5 s of
\* the window have passed.
BLE_window_ends(k) ==
  /\ kind = "ble" /\ conn[k].st = "scan_wait" /\ LoopRuns(conn[k].loop)
  /\ conn' = [conn EXCEPT ![k].st = "scan_stop"]
  /\ UNCHANGED <<wifiVars, commonVars, histVars, bleak, device_address,
                 device_name, client, event_loop, ble_thread, nLoops, loopSt,
                 cancelReq, stopReq, pending_tasks, disconnecting, sends, discs,
                 link, notify>>

\* After a window, scan again whatever was found.
AfterWindow_again(found) == "again"

\* Lines 434-435 and 419: after a window, return the device when one was
\* found, else scan again.
AfterWindow(found) == IF found THEN "return" ELSE "again"

\* Lines 432-435 and 322-335: scanner.stop() returns; with a device the scan
\* is over and client.connect begins, without one the next window starts.
BLE_window_closed(k) ==
  /\ kind = "ble" /\ conn[k].st = "scan_stop" /\ LoopRuns(conn[k].loop)
  /\ IF AfterWindow(conn[k].found) = "return"
       THEN /\ conn' = [conn EXCEPT ![k] = Linking(conn[k])]
            /\ device_name' = CameraName
            /\ device_address' = CameraAddress
            /\ client' = k
       ELSE /\ conn' = [conn EXCEPT ![k].st = "scan_start"]
            /\ UNCHANGED <<device_name, device_address, client>>
  /\ UNCHANGED <<wifiVars, commonVars, histVars, bleak, event_loop, ble_thread,
                 nLoops, loopSt, cancelReq, stopReq, pending_tasks, disconnecting,
                 sends, discs, link, notify>>

ConnectResults == {"up", "false", "raise"}

\* Lines 339-342 and 349-357: client.connect ends. The link is up, or the
\* call returned False, or it raised; after False the client self.client
\* names now is asked whether it is connected.
BLE_client_connect(k, res) ==
  /\ kind = "ble" /\ conn[k].st = "linking" /\ LoopRuns(conn[k].loop)
  /\ link' = IF res = "up" THEN [link EXCEPT ![k] = conn[k].loop] ELSE link
  /\ conn' = [conn EXCEPT ![k] =
                IF res = "up" \/ (res = "false" /\ link[client] # 0)
                  THEN [@ EXCEPT !.st = "notifying"]
                  ELSE Settle(conn[k], NoConn, "false")]
  /\ UNCHANGED <<wifiVars, commonVars, histVars, bleak, device_address,
                 device_name, client, event_loop, ble_thread, nLoops, loopSt,
                 cancelReq, stopReq, pending_tasks, disconnecting, sends, discs,
                 notify>>

\* is_connected is set whether or not start_notify has armed notifications.
ConnectedAfterNotify_always(armed) == TRUE

\* is_connected is set once start_notify has returned (lines 345-346).
ConnectedAfterNotify(armed) == armed

\* Lines 345-357: start_notify on the client self.client names ends; armed,
\* is_connected becomes True and _async_connect returns True; raised,
\* _async_connect returns False.
BLE_start_notify(k, ok) ==
  /\ kind = "ble" /\ conn[k].st = "notifying" /\ LoopRuns(conn[k].loop)
  /\ LET armed == ok /\ link[client] # 0 IN
       /\ notify' = IF armed THEN [notify EXCEPT ![client] = TRUE] ELSE notify
       /\ is_connected' = IF ConnectedAfterNotify(armed) THEN TRUE ELSE is_connected
       /\ conn' = [conn EXCEPT ![k] =
                     Settle(conn[k], NoConn, Bool2Val(ConnectedAfterNotify(armed)))]
  /\ UNCHANGED <<wifiVars, histVars, kind, app, receive_callback, pc, call, bleak,
                 device_address, device_name, client, event_loop, ble_thread,
                 nLoops, loopSt, cancelReq, stopReq, pending_tasks, disconnecting,
                 sends, discs, link>>

\* _async_send, lines 371-373: refused when the guard is set or the client
\* is missing or not connected; else write_gatt_char begins.
BLE_async_send(s) ==
  /\ kind = "ble" /\ sends[s].st = "queued" /\ LoopRuns(sends[s].loop)
  /\ sends' = [sends EXCEPT ![s] =
                 IF disconnecting \/ client = 0 \/ link[client] = 0
                   THEN Settle(sends[s], NoTask, "false")
                   ELSE [@ EXCEPT !.st = "writing"]]
  /\ UNCHANGED <<wifiVars, commonVars, histVars, bleak, device_address,
                 device_name, client, event_loop, ble_thread, nLoops, loopSt,
                 cancelReq, stopReq, pending_tasks, disconnecting, conn, discs,
                 link, notify>>

\* _async_send, lines 373-382: write_gatt_char ends; True, or False when it
\* raised.
BLE_write_gatt_char(s, ok) ==
  /\ kind = "ble" /\ sends[s].st = "writing" /\ LoopRuns(sends[s].loop)
  /\ sends' = [sends EXCEPT ![s] = Settle(sends[s], NoTask, Bool2Val(ok))]
  /\ UNCHANGED <<wifiVars, commonVars, histVars, bleak, device_address,
                 device_name, client, event_loop, ble_thread, nLoops, loopSt,
                 cancelReq, stopReq, pending_tasks, disconnecting, conn, discs,
                 link, notify>>

\* _async_disconnect, line 361: nothing to do without a connected client.
BLE_async_disconnect(d) ==
  /\ kind = "ble" /\ discs[d].st = "queued" /\ LoopRuns(discs[d].loop)
  /\ discs' = [discs EXCEPT ![d] =
                 IF client # 0 /\ link[client] # 0
                   THEN [@ EXCEPT !.st = "closing"]
                   ELSE Settle(discs[d], NoTask, "true")]
  /\ UNCHANGED <<wifiVars, commonVars, histVars, bleak, device_address,
                 device_name, client, event_loop, ble_thread, nLoops, loopSt,
                 cancelReq, stopReq, pending_tasks, disconnecting, conn, sends,
                 link, notify>>

CloseResults == {"closed", "stop_raised", "disconnect_raised"}

\* _async_disconnect, lines 362-366: stop_notify, then client.disconnect, on
\* the client self.client names; an exception of either is swallowed.
BLE_client_disconnect(d, res) ==
  /\ kind = "ble" /\ discs[d].st = "closing" /\ LoopRuns(discs[d].loop)
  /\ notify' = IF res # "stop_raised" THEN [notify EXCEPT ![client] = FALSE] ELSE notify
  /\ link' = IF res = "closed" THEN [link EXCEPT ![client] = 0] ELSE link
  /\ discs' = [discs EXCEPT ![d] = Settle(discs[d], NoTask, "true")]
  /\ UNCHANGED <<wifiVars, commonVars, histVars, bleak, device_address,
                 device_name, client, event_loop, ble_thread, nLoops, loopSt,
                 cancelReq, stopReq, pending_tasks, disconnecting, conn, sends>>

\* cancel_tasks, lines 258-262, run by the loop: cancel what _pending_tasks
\* holds and clear it.
BLE_cancel_tasks(l) ==
  /\ kind = "ble" /\ loopSt[l] = "running" /\ cancelReq[l]
  /\ cancelReq' = [cancelReq EXCEPT ![l] = FALSE]
  /\ pending_tasks' = {}
  /\ UNCHANGED <<wifiVars, commonVars, histVars, bleak, device_address,
                 device_name, client, event_loop, ble_thread, nLoops, loopSt,
                 stopReq, disconnecting, conn, sends, discs, link, notify>>

\* A task left on a loop that stops never runs again; one that nobody waits
\* for is gone.
Drop(t, none, l) == IF t.loop = l /\ t.abandoned THEN none ELSE t

\* loop.stop, queued at line 269, run by the loop: run_forever returns and
\* the thread of _run_event_loop (line 305) ends.
BLE_loop_stops(l) ==
  /\ kind = "ble" /\ loopSt[l] = "running" /\ ~cancelReq[l] /\ stopReq[l]
  /\ loopSt' = [loopSt EXCEPT ![l] = "dead"]
  /\ stopReq' = [stopReq EXCEPT ![l] = FALSE]
  /\ conn' = [k \in Loops |-> Drop(conn[k], NoConn, l)]
  /\ sends' = [s \in SendIds |-> Drop(sends[s], NoTask, l)]
  /\ discs' = [d \in DiscIds |-> Drop(discs[d], NoTask, l)]
  /\ UNCHANGED <<wifiVars, commonVars, histVars, bleak, device_address,
                 device_name, client, event_loop, ble_thread, nLoops, cancelReq,
                 pending_tasks, disconnecting, link, notify>>

\* _notification_handler, line 441: a notification of an armed client
\* arrives on its loop; with no callback registered it is dropped.
BLE_notification_handler(k) ==
  /\ kind = "ble" /\ link[k] # 0 /\ notify[k] /\ LoopRuns(link[k])
  /\ receive_callback
  /\ loopSt' = [loopSt EXCEPT ![link[k]] = "nh_call"]
  /\ UNCHANGED <<wifiVars, commonVars, histVars, bleak, device_address,
                 device_name, client, event_loop, ble_thread, nLoops, cancelReq,
                 stopReq, pending_tasks, disconnecting, conn, sends, discs, link,
                 notify>>

\* _notification_handler, line 442: receive_callback is read again and
\* called; None is not callable and the handler raises.
BLE_handler_calls(l) ==
  /\ kind = "ble" /\ loopSt[l] = "nh_call"
  /\ loopSt' = [loopSt EXCEPT ![l] = IF receive_callback THEN "nh_cb" ELSE "nh_raise"]
  /\ UNCHANGED <<wifiVars, commonVars, histVars, bleak, device_address,
                 device_name, client, event_loop, ble_thread, nLoops, cancelReq,
                 stopReq, pending_tasks, disconnecting, conn, sends, discs, link,
                 notify>>

\* The callback returns, or the loop has logged the handler's exception.
BLE_handler_returns(l) ==
  /\ kind = "ble" /\ loopSt[l] \in {"nh_cb", "nh_raise"}
  /\ loopSt' = [loopSt EXCEPT ![l] = "running"]
  /\ UNCHANGED <<wifiVars, commonVars, histVars, bleak, device_address,
                 device_name, client, event_loop, ble_thread, nLoops, cancelReq,
                 stopReq, pending_tasks, disconnecting, conn, sends, discs, link,
                 notify>>

\* connection_info, lines 447-450.
BLE_connection_info ==
  IF is_connected
    THEN <<"BLE", IF device_name # "none" THEN device_name
                  ELSE IF device_address # "none" THEN device_address
                  ELSE "Unknown">>
    ELSE <<"BLE", "(disconnected)">>

BLENext ==
  \/ \E a \in Addrs, m \in Modes : BLE_connect(a, m)
  \/ \E l \in Loops : BLE_run_event_loop(l)
  \/ BLE_connect_submit
  \/ \E t \in BOOLEAN : BLE_connect_wait(t)
  \/ \E c \in Callers : BLE_disconnect(c)
  \/ \E c \in Callers : BLE_disconnect_graceful(c)
  \/ \E c \in Callers : BLE_disconnect_wait(c)
  \/ \E c \in Callers : BLE_disconnect_cancel(c)
  \/ \E c \in Callers : BLE_disconnect_stop(c)
  \/ \E c \in Callers : BLE_disconnect_join(c)
  \/ \E c \in Callers : BLE_disconnect_clear(c)
  \/ BLE_send("aux")
  \/ BLE_send_submit("aux")
  \/ BLE_send_wait("aux")
  \/ BLE_start_receiving
  \/ BLE_stop_receiving
  \/ \E k \in Loops : BLE_async_connect(k)
  \/ \E k \in Loops, f \in BOOLEAN : BLE_find_camera_timed(k, f)
  \/ \E k \in Loops, ok \in BOOLEAN : BLE_scanner_start(k, ok)
  \/ \E k \in Loops : BLE_detection_callback(k)
  \/ \E k \in Loops : BLE_window_ends(k)
  \/ \E k \in Loops : BLE_window_closed(k)
  \/ \E k \in Loops, r \in ConnectResults : BLE_client_connect(k, r)
  \/ \E k \in Loops, ok \in BOOLEAN : BLE_start_notify(k, ok)
  \/ \E s \in SendIds : BLE_async_send(s)
  \/ \E s \in SendIds, ok \in BOOLEAN : BLE_write_gatt_char(s, ok)
  \/ \E d \in DiscIds : BLE_async_disconnect(d)
  \/ \E d \in DiscIds, r \in CloseResults : BLE_client_disconnect(d, r)
  \/ \E l \in Loops : BLE_cancel_tasks(l)
  \/ \E l \in Loops : BLE_loop_stops(l)
  \/ \E k \in Loops : BLE_notification_handler(k)
  \/ \E l \in Loops : BLE_handler_calls(l)
  \/ \E l \in Loops : BLE_handler_returns(l)

Next == WiFiNext \/ BLENext \/ \E c \in Callers : Return(c)

Spec == Init /\ [][Next]_vars

\* ============================================================ properties

\* The connect task a waiting connect call waits for.
Awaited == call["main"].task

\* A call of operation o by caller c has just returned.
Returned(c, o) == pc[c] = "ret" /\ call[c].op = o

\* C1: every connect call that returns false leaves the instance
\* Disconnected: is_connected is false when connect has returned false, and
\* stays false until a later connect returns true (also for a BLE connect
\* whose wait ran out while _async_connect was still running).
C1_FailedConnectLeavesDisconnected ==
  (life = "connect_failed" /\ LifecycleIdle) => ~is_connected

\* C2: a BLE send issued while the disconnecting guard is set returns false,
\* schedules no task on the run loop and never reaches write_gatt_char.
C2_GuardedSendRejected ==
  /\ \A c \in Callers :
       (kind = "ble" /\ Returned(c, "send") /\ call[c].g) =>
         (call[c].val = "false" /\ ~call[c].io)
  /\ \A s \in SendIds : sends[s].g => sends[s].st \notin {"queued", "writing", "true"}

\* C3: socket transport: once stop_receiving has returned, the receive
\* callback is not invoked again before a later start_receiving.
C3_NoCallbackAfterStop == kind = "wifi" => ~lateCallback

\* Threads the instance started that are alive.
LiveThreads ==
  {<<"loop", l>> : l \in {l \in Loops : loopSt[l] \notin {"unborn", "dead"}}}
    \cup {<<"rcv", r>> : r \in {r \in RcvThreads : rcvPc[r] # "dead"}}

\* C4: when disconnect returns, no background thread the instance started is
\* alive, whatever connect did before.
C4_NoThreadAfterDisconnect ==
  \A c \in Callers : Returned(c, "disconnect") => LiveThreads = {}

\* A run-loop thread that an earlier connect started is alive when disconnect
\* returns after stopping and joining the thread of the last connect.
C4_LeakedLoopThread ==
  /\ Returned("main", "disconnect")
  /\ loopSt[1] = "running" /\ loopSt[2] = "dead"

\* C5: a disconnect that follows a disconnect leaves the fields as they were
\* and schedules no work that can never complete (no task and no callback on
\* a loop that has stopped).
C5_SecondDisconnectIdle ==
  [][(life = "disconnected" /\ call["main"].op = "disconnect"
        /\ pc'["main"] # pc["main"]) =>
       /\ is_connected' = is_connected
       /\ socket' = socket /\ client' = client
       /\ ble_thread' = ble_thread
       /\ stopRet => rcv_thread' = rcv_thread
       /\ rcv_buffer' = rcv_buffer
       /\ \A d \in DiscIds :
            (discs'[d] # discs[d] /\ discs'[d].st = "queued") =>
              loopSt[discs'[d].loop] # "dead"
       /\ \A l \in Loops :
            ((cancelReq'[l] /\ ~cancelReq[l]) \/ (stopReq'[l] /\ ~stopReq[l])) =>
              loopSt[l] # "dead"]_vars

\* C6: send on a Disconnected instance (never connected, connect failed,
\* disconnect returned) returns false without writing to the socket and
\* without scheduling a task on the run loop.
C6_SendOnDisconnectedRejected ==
  \A c \in Callers :
    (Returned(c, "send") /\ call[c].d) => (call[c].val = "false" /\ ~call[c].io)

\* connection_info of the instance.
connection_info ==
  IF kind = "wifi" THEN WiFi_connection_info ELSE BLE_connection_info

DisconnectedMarker ==
  IF kind = "wifi" THEN <<"WiFi", "(disconnected)">> ELSE <<"BLE", "(disconnected)">>

\* The endpoints a successful connect can have resolved.
ResolvedEndpoints ==
  IF kind = "wifi" THEN {endpoint} ELSE {CameraName, CameraAddress}

\* C7: connection_info is the disconnected marker before any connect and
\* after disconnect has returned, and names the resolved endpoint after a
\* connect that returned true.
C7_ConnectionInfoRoundTrip ==
  LifecycleIdle =>
    /\ life \in {"never", "disconnected"} => connection_info = DisconnectedMarker
    /\ life = "connected" =>
         /\ connection_info # DisconnectedMarker
         /\ connection_info[2] \in ResolvedEndpoints

\* C8: a BLE connect with a finite scan_timeout whose wait runs out before
\* the connect task is finished returns false and neither cancels nor stops
\* the task: the task stays on its loop with nobody waiting, and a run-loop
\* thread ends only after disconnect has asked its loop to stop.
C8_TimedOutConnectAbandonsTask ==
  [][/\ (pc["main"] = "b_wait" /\ pc'["main"] = "ret" /\ ~Done(conn[Awaited])) =>
          /\ call'["main"].val = "false"
          /\ loopSt' = loopSt /\ stopReq' = stopReq /\ cancelReq' = cancelReq
          /\ Stranded(conn[Awaited])
               \/ conn'[Awaited] = [conn[Awaited] EXCEPT !.abandoned = TRUE]
     /\ \A l \in Loops :
          /\ (loopSt'[l] = "dead" /\ loopSt[l] # "dead") => stopReq[l]
          /\ (stopReq'[l] /\ ~stopReq[l]) =>
               \E c \in Callers : call[c].op = "disconnect"]_vars

C8_Witness ==
  /\ Returned("main", "connect") /\ call["main"].val = "false"
  /\ \E k \in Loops :
       /\ conn[k].abandoned /\ conn[k].st \in {"scan_timed", "linking", "notifying"}
       /\ loopSt[conn[k].loop] = "running"

C10_ConnectedOnlyWhenArmed ==
  [][/\ (kind = "ble" /\ is_connected' /\ ~is_connected) =>
          \E k \in Loops :
            /\ conn[k].st = "notifying"
            /\ link[client] # 0 /\ notify'[client]
     /\ \A k \in Loops :
          /\ (conn'[k].st = "true" /\ conn[k].st # "true") =>
               /\ conn[k].st = "notifying"
               /\ link[client] # 0 /\ notify'[client] /\ is_connected'
          /\ (conn[k].st \in {"linking", "notifying"} /\ conn'[k].st = "false") =>
               is_connected' = is_connected
     /\ (kind = "ble" /\ pc["main"] \in {"b_sleep", "b_wait", "b_wait_forever"}
           /\ pc'["main"] = "ret" /\ call'["main"].val = "true") =>
          conn[Awaited].st = "true"]_vars

C10_Witness ==
  /\ kind = "ble" /\ Returned("main", "connect") /\ call["main"].val = "true"
  /\ is_connected /\ client # 0 /\ notify[client]

\* The scheduling of the threads: a caller inside a call is given the
\* processor again and again, and so are the threads the instance started
\* (the steps that move no caller).
CallerStep(c) == Next /\ pc[c] # "idle" /\ pc'[c] # pc[c]
BackgroundStep == Next /\ pc' = pc
FairSpec ==
  Spec /\ (\A c \in Callers : WF_vars(CallerStep(c))) /\ WF_vars(BackgroundStep)

\* A caller waits in connect or send on the future of a task whose run loop
\* has stopped.
BlockedOnStoppedLoop(c) ==
  /\ kind = "ble"
  /\ \/ /\ pc[c] \in {"b_wait", "b_wait_forever"}
        /\ Stranded(conn[call[c].task])
     \/ /\ pc[c] = "s_wait"
        /\ Stranded(sends[call[c].task])

\* C11: once the run loop has stopped, every caller blocked in connect or
\* send on a future of that loop eventually returns; so does a connect
\* without scan timeout that a concurrent disconnect overtakes.
C11_BlockedCallersReturn ==
  \A c \in Callers : BlockedOnStoppedLoop(c) ~> (pc[c] = "ret")

\* A connect without scan timeout waits on its task while the disconnect of
\* another thread has stopped the loop the task is on.
C11_ConnectOvertaken ==
  /\ app = "interrupting" /\ pc["main"] = "b_wait_forever"
  /\ Stranded(conn[Awaited]) /\ Returned("aux", "disconnect")

\* The run-loop threads that are alive.
LiveLoops == {l \in Loops : loopSt[l] \notin {"unborn", "dead"}}

\* The steps of disconnect in the order the claim gives them.
DisconnectOrder ==
  [d_flag |-> {"d_wait", "d_cancel"}, d_wait |-> {"d_cancel"},
   d_cancel |-> {"d_stop", "d_join"}, d_stop |-> {"d_join"},
   d_join |-> {"d_clear"}, d_clear |-> {"ret"}]

\* One step seen from caller c: disconnect begins by setting the guard, goes
\* through its steps in order with the guard set, and clears the guard as it
\* returns.
DisconnectInOrder(c) ==
  /\ (pc[c] = "idle" /\ pc'[c] \in DOMAIN DisconnectOrder) =>
       (pc'[c] = "d_flag" /\ disconnecting')
  /\ pc[c] \in DOMAIN DisconnectOrder =>
       /\ disconnecting
       /\ pc'[c] \in DisconnectOrder[pc[c]] \cup {pc[c]}
       /\ disconnecting' = (pc'[c] # "ret")

\* C12: BLE disconnect sets the guard, schedules the graceful disconnect and
\* waits for it, has the pending tasks cancelled, asks the loop to stop,
\* joins the thread and clears the guard, in this order; the guard is true
\* throughout and is cleared only after the run-loop thread has terminated.
C12_DisconnectStepOrder ==
  [][\A c \in Callers :
       /\ DisconnectInOrder(c)
       /\ (pc[c] = "d_clear" /\ pc'[c] = "ret") => LiveLoops = {}]_vars

\* disconnect has cleared the guard and returned while the run-loop thread
\* it asked to stop is inside the receive callback.
C12_GuardClearedEarly ==
  /\ kind = "ble" /\ Returned("main", "disconnect") /\ ~disconnecting
  /\ \E l \in Loops : loopSt[l] = "nh_cb" /\ stopReq[l]

\* The order of the steps and the guard over them, without the end of the
\* thread: this much the code keeps.
C12_OrderOnly == [][\A c \in Callers : DisconnectInOrder(c)]_vars

\* The bridging tasks that are scheduled on a run loop and have not finished.
Running(t) == t.loop # 0 /\ t.st \notin {"none", "new"} \cup Results
InFlight ==
  {<<"connect", k>> : k \in {k \in Loops : Running(conn[k])}}
    \cup {<<"send", s>> : s \in {s \in SendIds : Running(sends[s])}}
    \cup {<<"disconnect", d>> : d \in {d \in DiscIds : Running(discs[d])}}

\* C13: every bridging task in flight on the run loop is a member of
\* _pending_tasks, so that disconnect cancels every task in flight; when
\* disconnect has returned the set is empty and no task is left in flight on
\* the loop it stopped.
C13_InFlightTasksTracked ==
  /\ InFlight \subseteq pending_tasks
  /\ Returned(Disconnector, "disconnect") =>
       /\ pending_tasks = {}
       /\ \A k \in Loops : ~(Running(conn[k]) /\ Stranded(conn[k]))

\* disconnect has returned and a connect task it found in flight sits
\* uncancelled on the stopped loop.
C13_UncancelledAfterDisconnect ==
  /\ Returned(Disconnector, "disconnect") /\ pending_tasks = {}
  /\ \E k \in Loops : Running(conn[k]) /\ Stranded(conn[k]) /\ ~conn[k].abandoned

\* C14: every write of _disconnecting and every mutation of _pending_tasks
\* is a step of the run-loop thread; the steps of the caller threads, which
\* are the steps that move a caller, leave both unchanged.
C14_LoopThreadOwnsGuardAndTasks ==
  [][(pc' # pc) =>
       (disconnecting' = disconnecting /\ pending_tasks' = pending_tasks)]_vars

\* A caller thread is inside disconnect with the guard it has set itself.
C14_CallerWroteGuard ==
  /\ kind = "ble" /\ pc[Disconnector] = "d_flag" /\ disconnecting

\* C15: at most one BLE run-loop thread is alive, also when connect is
\* called after an earlier connect without a disconnect in between.
C15_OneRunLoopThread == Cardinality(LiveLoops) <= 1

\* The second connect has returned true and the run loops of both connects
\* are running.
C15_TwoRunLoops ==
  /\ Returned("main", "connect") /\ call["main"].val = "true"
  /\ \A l \in Loops : loopSt[l] = "running"

\* The receive-loop threads that are alive.
LiveReceivers == {r \in RcvThreads : rcvPc[r] # "dead"}

\* C16: the socket transport has at most one receive-loop thread alive:
\* start_receiving while one runs starts none, and start_receiving after a
\* stop_receiving whose join timed out does not leave two running.
C16_OneReceiveLoop == Cardinality(LiveReceivers) <= 1

\* start_receiving has started a second receive loop while the one that
\* outlived the join is still inside its callback.
C16_TwoReceiveLoops ==
  /\ kind = "wifi" /\ RcvAlive(rcv_thread)
  /\ \E r \in RcvThreads : r # rcv_thread /\ rcvPc[r] = "cb"

\* C17: on the socket transport an I/O failure while connected (a send whose
\* write raises, a receive that reads end of file) makes is_connected false;
\* is_connected becomes true only in a successful connect and becomes false
\* only on an I/O failure or in disconnect.
C17_IoFailureDisconnects ==
  [][kind = "wifi" =>
       /\ \A c \in Callers :
            (is_connected /\ pc[c] = "w_write" /\ pc'[c] = "ret"
               /\ call'[c].val = "false") => ~is_connected'
       /\ \A r \in RcvThreads :
            (is_connected /\ rcvPc[r] = "recv" /\ rcvPc'[r] # "recv"
               /\ socket = "eof") => ~is_connected'
       /\ (~is_connected /\ is_connected') =>
            (pc["main"] = "w_connect" /\ call'["main"].val = "true")
       /\ (is_connected /\ ~is_connected') =>
            \/ pc["main"] = "w_close"
            \/ pc["main"] = "w_connect" /\ call'["main"].val = "false"
            \/ \E c \in Callers : pc[c] = "w_write" /\ call'[c].val = "false"
            \/ \E r \in RcvThreads : rcvPc[r] = "recv" /\ socket = "eof"]_vars

\* A send has failed on the socket the peer closed, and the transport still
\* reports itself connected.
C17_ConnectedAfterFailedSend ==
  /\ kind = "wifi" /\ is_connected /\ socket = "eof"
  /\ \E c \in Callers :
       Returned(c, "send") /\ call[c].val = "false" /\ call[c].io

\* C18: _notification_handler passes the data to the registered callback
\* or drops them; it never calls None and never raises, however its steps
\* interleave with start_receiving and stop_receiving.
C18_HandlerNeverRaises == \A l \in Loops : loopSt[l] # "nh_raise"

\* The handler has read a callback at line 441 and stop_receiving has
\* cleared it before the call of line 442.
C18_CallbackClearedInBetween ==
  /\ kind = "ble" /\ ~receive_callback
  /\ \E l \in Loops : loopSt[l] = "nh_call"

\* C19: every BLE connect schedules its task on the loop the thread of this
\* same call has created, never on None and never on the stopped loop of an
\* earlier connection.
C19_TaskOnOwnLoop ==
  [][(kind = "ble" /\ pc["main"] = "b_sleep" /\ pc'["main"] # "b_sleep") =>
       (event_loop = Awaited /\ conn'[Awaited].loop = Awaited)]_vars

\* A connect waits on a task that it has scheduled on the stopped loop of
\* the connection before.
C19_TaskOnStaleLoop ==
  /\ kind = "ble" /\ pc["main"] \in {"b_wait", "b_wait_forever"}
  /\ conn[Awaited].loop \notin {0, Awaited} /\ Stranded(conn[Awaited])

\* C20: the socket transport has at most one socket open; every socket that
\* connect has opened is closed when a failed connect or a disconnect has
\* returned, also when connect is called on a connected instance.
C20_OneOpenSocket ==
  /\ OpenSockets <= 1
  /\ (Returned("main", "connect") /\ call["main"].val = "false") => OpenSockets = 0
  /\ Returned("main", "disconnect") => OpenSockets = 0

\* connect on a connected instance has opened a second socket while the one
\* it replaced is still open.
C20_TwoOpenSockets ==
  /\ kind = "wifi" /\ Returned("main", "connect") /\ call["main"].val = "true"
  /\ socket = "conn" /\ leaked > 0

====
